---------------------------- MODULE Spec2Model ----------------------------
(***************************************************************************)
(* Model of the monetaic backend's LLM-backed analysis pipeline:           *)
(*   services/finance_ai.py  extract_json, call_openai, the five stages    *)
(*   routes/user_data.py     analyze_and_update_user, verify_and_run_...,  *)
(*                           delete_user                                   *)
(*   routes/analysis.py      analyze_user_finances                         *)
(*                                                                         *)
(* Texts are sequences of tokens.  "{" "}" "[" "]" "," are the JSON        *)
(* punctuation characters, " " is whitespace, a key token stands for the   *)
(* text of a quoted member name followed by its colon, a scalar token for  *)
(* the text of a brace-free JSON value, and every other token is prose.    *)
(* JSON values are tagged records, Python call results are records that    *)
(* either carry a value (exc = "none") or a raised exception.              *)
(***************************************************************************)
EXTENDS Integers, Sequences, FiniteSets, TLC

VARIABLES
    response_text,    \* extract_json: the raw text handed to it
    extracted,        \* extract_json: what the call produced
    habit_stage,      \* Result Normalizer: "good" or "bad"
    parsed_response,  \* Result Normalizer: the parsed JSON object handed to it
    extracted_list,   \* Result Normalizer: what the stage returned for it
    users,            \* users_collection: ObjectId -> stored document, or None
    pc,               \* per request: where its handler stands
    endpoint,         \* per request: "verify", "analysis" or "delete"
    user_id,          \* per request: the identifier in the path
    user,             \* per request: the document find_one returned
    spend_analysis,   \* per request: the locals of analyze_and_update_user
    longterm,
    shortterm,
    good_habits,
    bad_habits,
    update_data,      \* per request: the $set document given to update_one
    answers,          \* per request: what the service answered to each stage's call
    result,           \* per request: the HTTP response
    db_calls          \* per request: the persistence calls issued so far

pureVars == <<response_text, extracted, habit_stage, parsed_response, extracted_list>>
locals   == <<spend_analysis, longterm, shortterm, good_habits, bad_habits, update_data,
               answers>>
reqVars  == <<pc, endpoint, user_id, user, result, db_calls>>
vars     == <<pureVars, users, reqVars, locals>>

---------------------------------------------------------------------------
(* Python values *)

Obj(members) == [t |-> "obj", m |-> members]   \* dict, insertion-ordered <<key, value>> pairs
Lst(elems)   == [t |-> "list", e |-> elems]
Str(s)       == [t |-> "str", s |-> s]

Ret(v)          == [exc |-> "none", val |-> v]
Raise(cls, msg) == [exc |-> cls, msg |-> msg]

\* a recommendation record, told apart by where it stands in the response
Item(c, s, i) == [t |-> "item", cat |-> c, sub |-> s, n |-> i]

\* a key a document does not hold
Absent == [t |-> "absent"]

\* {"error": msg}
ErrorRecord(msg) == Obj(<< <<"error", Str(msg)>> >>)

\* Python truthiness of a JSON value: {} and [] (and "") are falsy
Truthy(v) ==
    CASE v.t = "obj"  -> v.m # <<>>
      [] v.t = "list" -> v.e # <<>>
      [] v.t = "str"  -> v.s # ""
      [] OTHER        -> FALSE

\* key in d
HasKey(d, k) == \E i \in 1..Len(d.m) : d.m[i][1] = k

\* d[k]
GetKey(d, k) == LET i == CHOOSE j \in 1..Len(d.m) : d.m[j][1] = k IN d.m[i][2]

\* d[k] = v on a dict's member list: a repeated key keeps its place, takes the last value
DictSet(members, k, v) ==
    IF \E i \in 1..Len(members) : members[i][1] = k
    THEN [i \in 1..Len(members) |->
            IF members[i][1] = k THEN <<k, v>> ELSE members[i]]
    ELSE Append(members, <<k, v>>)

---------------------------------------------------------------------------
(* json.loads on a token text *)

KeyTokens ==
    {"k", "error",
     "positiveSpendingOpportunities", "growthAreas",
     "investments", "selfDevelopment", "protectiveSpending", "skillEnhancement",
     "highImpactReductions", "debtOptimizations", "lifestyleAdjustments",
     "smartSubstitutions"}

ScalarTokens == {"v", "w", "a", "b", "c", "d"}

ParseFail == [ok |-> FALSE, nxt |-> 0, val |-> Str("")]

RECURSIVE ParseValue(_, _)
RECURSIVE ParseMembers(_, _, _)
RECURSIVE ParseElems(_, _, _)

\* one JSON value starting at toks[i]; nxt is the index after it
ParseValue(toks, i) ==
    IF i > Len(toks) THEN ParseFail
    ELSE IF toks[i] \in ScalarTokens THEN [ok |-> TRUE, nxt |-> i + 1, val |-> Str(toks[i])]
    ELSE IF toks[i] = "{" THEN
        IF i + 1 <= Len(toks) /\ toks[i + 1] = "}"
        THEN [ok |-> TRUE, nxt |-> i + 2, val |-> Obj(<<>>)]
        ELSE ParseMembers(toks, i + 1, <<>>)
    ELSE IF toks[i] = "[" THEN
        IF i + 1 <= Len(toks) /\ toks[i + 1] = "]"
        THEN [ok |-> TRUE, nxt |-> i + 2, val |-> Lst(<<>>)]
        ELSE ParseElems(toks, i + 1, <<>>)
    ELSE ParseFail

\* members of an object, toks[i] being where a member name is due
ParseMembers(toks, i, acc) ==
    IF i > Len(toks) \/ toks[i] \notin KeyTokens THEN ParseFail
    ELSE LET r == ParseValue(toks, i + 1) IN
         IF ~r.ok \/ r.nxt > Len(toks) THEN ParseFail
         ELSE LET acc2 == DictSet(acc, toks[i], r.val) IN
              IF toks[r.nxt] = "}" THEN [ok |-> TRUE, nxt |-> r.nxt + 1, val |-> Obj(acc2)]
              ELSE IF toks[r.nxt] = "," THEN ParseMembers(toks, r.nxt + 1, acc2)
              ELSE ParseFail

\* elements of a list, toks[i] being where an element is due
ParseElems(toks, i, acc) ==
    LET r == ParseValue(toks, i) IN
    IF ~r.ok \/ r.nxt > Len(toks) THEN ParseFail
    ELSE LET acc2 == Append(acc, r.val) IN
         IF toks[r.nxt] = "]" THEN [ok |-> TRUE, nxt |-> r.nxt + 1, val |-> Lst(acc2)]
         ELSE IF toks[r.nxt] = "," THEN ParseElems(toks, r.nxt + 1, acc2)
         ELSE ParseFail

\* json.loads(s): whitespace between tokens is skipped, the whole text must be one value
json_loads(s) ==
    LET toks == SelectSeq(s, LAMBDA c : c # " ")
        r    == ParseValue(toks, 1)
    IN  IF r.ok /\ r.nxt = Len(toks) + 1
        THEN Ret(r.val)
        ELSE Raise("JSONDecodeError", "Expecting value")

---------------------------------------------------------------------------
(* services/finance_ai.py: extract_json *)

\* re.search(r"\{.*\}", text, re.DOTALL): leftmost "{", then greedily to the last "}"
FirstOpen(text) == CHOOSE i \in 1..Len(text) :
                       text[i] = "{" /\ \A j \in 1..(i - 1) : text[j] # "{"
LastClose(text) == CHOOSE i \in 1..Len(text) :
                       text[i] = "}" /\ \A j \in (i + 1)..Len(text) : text[j] # "}"

re_search(text) ==
    IF \E i, j \in 1..Len(text) : i < j /\ text[i] = "{" /\ text[j] = "}"
    THEN [found |-> TRUE, group0 |-> SubSeq(text, FirstOpen(text), LastClose(text))]
    ELSE [found |-> FALSE, group0 |-> <<>>]

\* the try block, lines 27-31
extract_json_try(text) ==
    LET match == re_search(text) IN
    IF match.found
    THEN json_loads(match.group0)
    ELSE Raise("ValueError", "No JSON found in OpenAI response")

\* extract_json without its except clause: the JSONDecodeError escapes
extract_json_nocatch(text) == extract_json_try(text)

\* lines 26-34: only json.JSONDecodeError is handled
extract_json(text) ==
    LET r == extract_json_try(text) IN
    IF r.exc = "JSONDecodeError"
    THEN Ret(ErrorRecord("Invalid JSON format from OpenAI"))
    ELSE r

---------------------------------------------------------------------------
(* services/finance_ai.py: the text-generation call and the stages *)

\* What openai.ChatCompletion.create did: raised an OpenAIError, answered with
\* no choices, or answered with a first choice whose message content is `content`.
ApiError        == [kind |-> "api_error", content |-> <<>>]
NoChoices       == [kind |-> "no_choices", content |-> <<>>]
Completion(txt) == [kind |-> "text", content |-> txt]

RECURSIVE lstrip(_)
lstrip(s) == IF s # <<>> /\ Head(s) = " " THEN lstrip(Tail(s)) ELSE s

RECURSIVE rstrip(_)
rstrip(s) == IF s # <<>> /\ s[Len(s)] = " " THEN rstrip(SubSeq(s, 1, Len(s) - 1)) ELSE s

\* str.strip()
strip(s) == rstrip(lstrip(s))

\* call_openai, the try block (lines 41-56)
call_openai_try(resp) ==
    IF resp.kind = "api_error"
    THEN Raise("OpenAIError", "service unavailable")
    ELSE IF resp.kind = "no_choices"
    THEN Raise("ValueError", "Empty response from OpenAI API")
    ELSE LET text == strip(resp.content) IN
         IF text = <<>>
         THEN Raise("ValueError", "OpenAI API returned an empty response")
         ELSE extract_json(text)

\* call_openai with its handlers (lines 58-64): every Exception becomes an error record
call_openai(resp) ==
    LET r == call_openai_try(resp) IN
    IF r.exc = "none" THEN r
    ELSE IF r.exc = "OpenAIError"
    THEN Ret(ErrorRecord("OpenAI API error. Please try again later."))
    ELSE Ret(ErrorRecord(r.msg))

\* The prompt of a stage only embeds its payload; the result is call_openai's.
analyze_spending(user_data, resp)              == call_openai(resp)
generate_longterm_goals(analysis, resp)  == call_openai(resp)
generate_shortterm_goals(analysis, resp) == call_openai(resp)

\* seq[:n]
Take(seq, n) == SubSeq(seq, 1, IF Len(seq) < n THEN Len(seq) ELSE n)

HabitCap == 4

GoodKeys == <<"positiveSpendingOpportunities", "growthAreas">>
BadKeys  == <<"highImpactReductions", "debtOptimizations",
              "lifestyleAdjustments", "smartSubstitutions">>

\* lines 234-236: for sub_key, items in parsed_response[key].items()
RECURSIVE good_sub_loop(_, _)
good_sub_loop(members, extracted_list0) ==
    IF members = <<>> THEN extracted_list0
    ELSE LET items == Head(members)[2] IN
         good_sub_loop(Tail(members),
                       IF items.t = "list"
                       THEN extracted_list0 \o Take(items.e, 1)
                       ELSE extracted_list0)

\* lines 232-236: for key in ["positiveSpendingOpportunities", "growthAreas"]
RECURSIVE good_key_loop(_, _, _)
good_key_loop(parsed, keys, extracted_list0) ==
    IF keys = <<>> THEN Ret(extracted_list0)
    ELSE IF ~HasKey(parsed, Head(keys))
    THEN good_key_loop(parsed, Tail(keys), extracted_list0)
    ELSE LET sub == GetKey(parsed, Head(keys)) IN
         IF sub.t # "obj"
         THEN Raise("AttributeError", "object has no attribute 'items'")
         ELSE good_key_loop(parsed, Tail(keys), good_sub_loop(sub.m, extracted_list0))

ErrorText(v) == IF v.t = "str" THEN v.s ELSE "<value>"

\* identify_good_habits returning extracted_list whole, without the final [:4]
good_habits_select_all(parsed) ==
    IF HasKey(parsed, "error")
    THEN Raise("ValueError",
               "OpenAI JSON extraction failed: " \o ErrorText(GetKey(parsed, "error")))
    ELSE LET r == good_key_loop(parsed, GoodKeys, <<>>) IN
         IF r.exc = "none" THEN Ret(Lst(r.val)) ELSE r

\* identify_good_habits, lines 227-238, on the parsed response
good_habits_select(parsed) ==
    IF HasKey(parsed, "error")
    THEN Raise("ValueError",
               "OpenAI JSON extraction failed: " \o ErrorText(GetKey(parsed, "error")))
    ELSE LET r == good_key_loop(parsed, GoodKeys, <<>>) IN
         IF r.exc = "none" THEN Ret(Lst(Take(r.val, HabitCap))) ELSE r

\* lines 352-356: for key in [...]: items = parsed_response[key]
RECURSIVE bad_key_loop(_, _, _)
bad_key_loop(parsed, keys, extracted_list0) ==
    IF keys = <<>> THEN extracted_list0
    ELSE IF ~HasKey(parsed, Head(keys))
    THEN bad_key_loop(parsed, Tail(keys), extracted_list0)
    ELSE LET items == GetKey(parsed, Head(keys)) IN
         bad_key_loop(parsed, Tail(keys),
                      IF items.t = "list" /\ Len(items.e) > 0
                      THEN extracted_list0 \o Take(items.e, 1)
                      ELSE extracted_list0)

\* identify_bad_habits, lines 347-358, on the parsed response
bad_habits_select(parsed) ==
    IF HasKey(parsed, "error")
    THEN Raise("ValueError",
               "OpenAI JSON extraction failed: " \o ErrorText(GetKey(parsed, "error")))
    ELSE LET extracted_list0 == bad_key_loop(parsed, BadKeys, <<>>) IN
         IF extracted_list0 # <<>>
         THEN Ret(Lst(Take(extracted_list0, HabitCap)))
         ELSE Ret(Lst(<<ErrorRecord("No negative habits identified.")>>))

\* the handlers of both habit stages (lines 240-248, 360-368)
habits_except(r) ==
    IF r.exc = "none" THEN r
    ELSE IF r.exc = "OpenAIError"
    THEN Ret(Lst(<<ErrorRecord("OpenAI API error. Please try again later.")>>))
    ELSE IF r.exc = "JSONDecodeError"
    THEN Ret(Lst(<<ErrorRecord("Invalid JSON format from OpenAI")>>))
    ELSE Ret(Lst(<<ErrorRecord(r.msg)>>))

\* lines 205-225 and 325-345: the call, the content, extract_json
habits_parse(resp) ==
    IF resp.kind = "api_error"
    THEN Raise("OpenAIError", "service unavailable")
    ELSE IF resp.kind = "no_choices"
    THEN Raise("IndexError", "list index out of range")
    ELSE LET text == strip(resp.content) IN
         IF text = <<>>
         THEN Raise("ValueError", "OpenAI API returned an empty response")
         ELSE extract_json(text)

identify_good_habits(user_data, resp) ==
    LET p == habits_parse(resp) IN
    habits_except(IF p.exc = "none" THEN good_habits_select(p.val) ELSE p)

identify_bad_habits(user_data, resp) ==
    LET p == habits_parse(resp) IN
    habits_except(IF p.exc = "none" THEN bad_habits_select(p.val) ELSE p)

\* what a habit stage returns once extract_json has given it `parsed`
habits_of_parsed(stage, parsed) ==
    habits_except(IF stage = "good" THEN good_habits_select(parsed)
                                    ELSE bad_habits_select(parsed))

---------------------------------------------------------------------------
(* Identifiers and the users collection *)

IdLen == 24

HexDigits == {"0", "1", "2", "3", "4", "5", "6", "7", "8", "9",
              "a", "b", "c", "d", "e", "f", "A", "B", "C", "D", "E", "F"}

\* bson's ObjectId.is_valid on a path string: 24 hexadecimal characters
ObjectId_is_valid(oid) ==
    /\ oid # <<>>
    /\ Len(oid) = IdLen
    /\ \A i \in 1..Len(oid) : oid[i] \in HexDigits

LowerHex(c) ==
    CASE c = "A" -> "a" [] c = "B" -> "b" [] c = "C" -> "c"
      [] c = "D" -> "d" [] c = "E" -> "e" [] c = "F" -> "f" [] OTHER -> c

\* ObjectId(user_id): the 12 bytes the hex string denotes, written in lower case
ObjectId(oid) == [i \in 1..Len(oid) |-> LowerHex(oid[i])]

Rep(c, n) == [i \in 1..n |-> c]

IdA == Rep("a", IdLen)
IdB == Rep("b", IdLen)

\* the identifiers a request may carry
UserIds ==
    {IdA,                                \* well-formed
     Rep("B", IdLen),                    \* well-formed, upper case
     Rep("a", 10),                       \* too short
     Rep("a", IdLen - 1) \o <<"g">>,     \* 24 characters, one not hexadecimal
     Rep("a", IdLen + 1),                \* too long
     <<>>}

ObjectIds == {IdA, IdB}

None == [t |-> "None"]

DerivedFields == {"spend_analysis", "longterm", "shortterm", "good_habits", "bad_habits"}

\* a stored document; a field the document does not hold is Absent
Document(id, email, financial, sa, lt, st, gh, bh) ==
    [oid |-> id, email |-> email, financial |-> financial, insights |-> Obj(<<>>),
     spend_analysis |-> sa, longterm |-> lt, shortterm |-> st,
     good_habits |-> gh, bad_habits |-> bh]

\* dict.get(key, default)
get(doc, key, default) == IF doc[key] = Absent THEN default ELSE doc[key]

Data(x) == Obj(<< <<"k", Str(x)>> >>)

Financial == Obj(<< <<"monthlyIncome", Str("50000")>> >>)

\* the record the requests address, as earlier requests may have left it
ProfilesA ==
    {\* as registered, before any analysis
     Document(IdA, Str("a@x"), Financial, Absent, Absent, Absent, Absent, Absent),
     \* with the defaults of models.UserInDB
     Document(IdA, Str("a@x"), Financial, Obj(<<>>), Obj(<<>>), Obj(<<>>), Obj(<<>>), Obj(<<>>)),
     \* after a run in which every stage succeeded
     Document(IdA, Str("a@x"), Financial, Data("a"), Data("b"), Data("c"),
              Lst(<<Item("p", "p", 1)>>), Lst(<<Item("q", "q", 1)>>)),
     \* after runs in which some stages failed or returned nothing
     Document(IdA, Str("a@x"), Financial, Data("a"), ErrorRecord("No JSON found in OpenAI response"),
              Absent, Lst(<<>>), Lst(<<ErrorRecord("No negative habits identified.")>>))}

\* another user's record: no email, no financial data
OtherDocument ==
    Document(IdB, Absent, Absent, Data("d"), Absent, Absent, Absent, Absent)

---------------------------------------------------------------------------
(* What the text-generation service may answer to one call *)

SpendText == <<" ", "p", "{", "k", "v", "}", "p">>
\* the layout the good-habits prompt asks for (lines 165-198): growthAreas lies
\* inside positiveSpendingOpportunities
GoodText  == <<"{", "positiveSpendingOpportunities", "{",
                   "investments", "[", "a", ",", "b", "]", ",",
                   "selfDevelopment", "[", "]", ",",
                   "protectiveSpending", "[", "c", "]", ",",
                   "growthAreas", "{", "skillEnhancement", "[", "d", "]", "}",
               "}", "}">>
BadText   == <<"p", "{", "highImpactReductions", "[", "a", ",", "b", "]", ",",
                    "lifestyleAdjustments", "[", "c", "]", "}">>

Failures ==
    {ApiError,                          \* transport failure
     NoChoices,                         \* empty response
     Completion(<<"p", "p">>),          \* no JSON found
     Completion(<<"{", "k", "}">>)}     \* malformed JSON

ServiceResponses ==
    Failures \cup {Completion(<<"{", "}">>), Completion(SpendText)}

\* a category that is a list where an object is expected
BadShapeText == <<"{", "positiveSpendingOpportunities", "[", "a", "]", "}">>

GoodResponses == Failures \cup {Completion(<<"{", "}">>), Completion(BadShapeText),
                                Completion(GoodText)}
BadResponses  == Failures \cup {Completion(<<"{", "}">>), Completion(BadText)}

---------------------------------------------------------------------------
(* The HTTP handlers *)

Runs == {"r1", "r2"}

Unbound  == [t |-> "unbound"]
NotAsked == [kind |-> "not_asked", content |-> <<>>]
NoResult == [status |-> 0]

HTTPException(status_code, detail) == [status |-> status_code, detail |-> detail]

\* try: value = await stage(...)  except Exception: value = fallback
try_stage(res, fallback) == IF res.exc = "none" THEN res.val ELSE fallback

\* `or` as it would be were an error record taken for a failed value
py_or_unless_error(a, b) ==
    IF Truthy(a) /\ ~(a.t = "obj" /\ HasKey(a, "error")) THEN a ELSE b

\* a or b
py_or(a, b) == IF Truthy(a) THEN a ELSE b

\* the stored document under an ObjectId
find_one(oid) == IF oid \in DOMAIN users THEN users[oid] ELSE None

Respond(r, res) ==
    /\ result' = [result EXCEPT ![r] = res]
    /\ pc' = [pc EXCEPT ![r] = "done"]

\* a request arrives at one of the three endpoints
Arrive(r) ==
    /\ pc[r] = "idle"
    /\ \E ep \in {"verify", "analysis", "delete"}, id \in UserIds :
          /\ endpoint' = [endpoint EXCEPT ![r] = ep]
          /\ user_id' = [user_id EXCEPT ![r] = id]
    /\ pc' = [pc EXCEPT ![r] = "validate"]
    /\ UNCHANGED <<pureVars, users, user, result, db_calls, locals>>

\* the validation as it would be were delete_user to skip it
Validate_not_on_delete(r) ==
    /\ pc[r] = "validate"
    /\ IF endpoint[r] = "delete" \/ ObjectId_is_valid(user_id[r])
       THEN /\ pc' = [pc EXCEPT ![r] = "find"]
            /\ UNCHANGED result
       ELSE Respond(r, HTTPException(400, "Invalid ObjectID format"))
    /\ UNCHANGED <<pureVars, users, endpoint, user_id, user, db_calls, locals>>

\* if not ObjectId.is_valid(user_id): raise HTTPException(400)
Validate(r) ==
    /\ pc[r] = "validate"
    /\ IF ObjectId_is_valid(user_id[r])
       THEN /\ pc' = [pc EXCEPT ![r] = "find"]
            /\ UNCHANGED result
       ELSE Respond(r, HTTPException(400, "Invalid ObjectID format"))
    /\ UNCHANGED <<pureVars, users, endpoint, user_id, user, db_calls, locals>>

\* verify_and_run_analysis launching the goals stages without the spending-rating
\* stage
VerifyFind_no_spend(r) ==
    /\ pc[r] = "find" /\ endpoint[r] = "verify"
    /\ LET found == find_one(ObjectId(user_id[r])) IN
       /\ user' = [user EXCEPT ![r] = found]
       /\ db_calls' = [db_calls EXCEPT ![r] = Append(@, "find_one")]
       /\ IF found = None
          THEN Respond(r, HTTPException(404, "User not found"))
          ELSE IF ~Truthy(get(found, "email", Str("")))
          THEN Respond(r, HTTPException(404, "User email not found"))
          ELSE /\ pc' = [pc EXCEPT ![r] = "longterm"]
               /\ UNCHANGED result
    /\ UNCHANGED <<pureVars, users, endpoint, user_id, locals>>

\* verify_and_run_analysis, lines 113-122
VerifyFind(r) ==
    /\ pc[r] = "find" /\ endpoint[r] = "verify"
    /\ LET found == find_one(ObjectId(user_id[r])) IN
       /\ user' = [user EXCEPT ![r] = found]
       /\ db_calls' = [db_calls EXCEPT ![r] = Append(@, "find_one")]
       /\ IF found = None
          THEN Respond(r, HTTPException(404, "User not found"))
          ELSE IF ~Truthy(get(found, "email", Str("")))
          THEN Respond(r, HTTPException(404, "User email not found"))
          ELSE /\ pc' = [pc EXCEPT ![r] = "spend"]
               /\ UNCHANGED result
    /\ UNCHANGED <<pureVars, users, endpoint, user_id, locals>>

\* analyze_and_update_user, lines 44-49
StageSpend(r) ==
    /\ pc[r] = "spend"
    /\ \E resp \in ServiceResponses :
          /\ answers' = [answers EXCEPT ![r].spend_analysis = resp]
          /\ spend_analysis' = [spend_analysis EXCEPT ![r] =
              try_stage(analyze_spending(user[r], resp),
                        get(user[r], "spend_analysis", Obj(<<>>)))]
    /\ pc' = [pc EXCEPT ![r] = "longterm"]
    /\ UNCHANGED <<pureVars, users, endpoint, user_id, user, result, db_calls,
                   longterm, shortterm, good_habits, bad_habits, update_data>>

\* lines 51-56
StageLongterm(r) ==
    /\ pc[r] = "longterm"
    /\ \E resp \in ServiceResponses :
          /\ answers' = [answers EXCEPT ![r].longterm = resp]
          /\ longterm' = [longterm EXCEPT ![r] =
              try_stage(generate_longterm_goals(spend_analysis[r], resp),
                        get(user[r], "longterm", Obj(<<>>)))]
    /\ pc' = [pc EXCEPT ![r] = "shortterm"]
    /\ UNCHANGED <<pureVars, users, endpoint, user_id, user, result, db_calls,
                   spend_analysis, shortterm, good_habits, bad_habits, update_data>>

\* lines 58-63
StageShortterm(r) ==
    /\ pc[r] = "shortterm"
    /\ \E resp \in ServiceResponses :
          /\ answers' = [answers EXCEPT ![r].shortterm = resp]
          /\ shortterm' = [shortterm EXCEPT ![r] =
              try_stage(generate_shortterm_goals(spend_analysis[r], resp),
                        get(user[r], "shortterm", Obj(<<>>)))]
    /\ pc' = [pc EXCEPT ![r] = "good"]
    /\ UNCHANGED <<pureVars, users, endpoint, user_id, user, result, db_calls,
                   spend_analysis, longterm, good_habits, bad_habits, update_data>>

\* lines 65-70
StageGoodHabits(r) ==
    /\ pc[r] = "good"
    /\ \E resp \in GoodResponses :
          /\ answers' = [answers EXCEPT ![r].good_habits = resp]
          /\ good_habits' = [good_habits EXCEPT ![r] =
              try_stage(identify_good_habits(user[r], resp),
                        get(user[r], "good_habits", Lst(<<>>)))]
    /\ pc' = [pc EXCEPT ![r] = "bad"]
    /\ UNCHANGED <<pureVars, users, endpoint, user_id, user, result, db_calls,
                   spend_analysis, longterm, shortterm, bad_habits, update_data>>

\* lines 72-77
StageBadHabits(r) ==
    /\ pc[r] = "bad"
    /\ \E resp \in BadResponses :
          /\ answers' = [answers EXCEPT ![r].bad_habits = resp]
          /\ bad_habits' = [bad_habits EXCEPT ![r] =
              try_stage(identify_bad_habits(user[r], resp),
                        get(user[r], "bad_habits", Lst(<<>>)))]
    /\ pc' = [pc EXCEPT ![r] = "update"]
    /\ UNCHANGED <<pureVars, users, endpoint, user_id, user, result, db_calls,
                   spend_analysis, longterm, shortterm, good_habits, update_data>>

\* lines 80-86
merge_update(r) ==
    [spend_analysis |-> py_or(spend_analysis[r], get(user[r], "spend_analysis", Obj(<<>>))),
     longterm       |-> py_or(longterm[r], get(user[r], "longterm", Obj(<<>>))),
     shortterm      |-> py_or(shortterm[r], get(user[r], "shortterm", Obj(<<>>))),
     good_habits    |-> py_or(good_habits[r], get(user[r], "good_habits", Lst(<<>>))),
     bad_habits     |-> py_or(bad_habits[r], get(user[r], "bad_habits", Lst(<<>>)))]

\* the write as a full-document replace, replace_one({"_id": oid}, fields): the
\* document keeps its _id and holds nothing but the given fields
replace_one(oid, fields) ==
    IF oid \in DOMAIN users /\ users[oid] # None
    THEN [users EXCEPT ![oid] =
            [f \in DOMAIN users[oid] |->
                IF f \in DOMAIN fields THEN fields[f]
                ELSE IF f = "oid" THEN users[oid][f] ELSE Absent]]
    ELSE users

\* update_one({"_id": oid}, {"$set": fields}): the named fields of the document
\* under oid are replaced; nothing happens when there is no such document
update_one(oid, fields) ==
    IF oid \in DOMAIN users /\ users[oid] # None
    THEN [users EXCEPT ![oid] =
            [f \in DOMAIN users[oid] |->
                IF f \in DOMAIN fields THEN fields[f] ELSE users[oid][f]]]
    ELSE users

\* the write-back under an optimistic check: nothing is written when the stored
\* document is no longer the snapshot the run read
UpdateOne_if_unchanged(r) ==
    /\ pc[r] = "update"
    /\ update_data' = [update_data EXCEPT ![r] = merge_update(r)]
    /\ users' = IF users[user[r].oid] = user[r]
                THEN update_one(user[r].oid, merge_update(r))
                ELSE users
    /\ db_calls' = [db_calls EXCEPT ![r] = Append(@, "update_one")]
    /\ pc' = [pc EXCEPT ![r] = "refetch"]
    /\ UNCHANGED <<pureVars, endpoint, user_id, user, result, answers,
                   spend_analysis, longterm, shortterm, good_habits, bad_habits>>

\* lines 79-93: build update_data, write it back
UpdateOne(r) ==
    /\ pc[r] = "update"
    /\ update_data' = [update_data EXCEPT ![r] = merge_update(r)]
    /\ users' = update_one(user[r].oid, merge_update(r))
    /\ db_calls' = [db_calls EXCEPT ![r] = Append(@, "update_one")]
    /\ pc' = [pc EXCEPT ![r] = "refetch"]
    /\ UNCHANGED <<pureVars, endpoint, user_id, user, result, answers,
                   spend_analysis, longterm, shortterm, good_habits, bad_habits>>

\* the refetch as it would be under the identifier's string form, user_clean["_id"]:
\* no stored _id equals a string, find_one returns None
Refetch_by_string_id(r) ==
    /\ pc[r] = "refetch"
    /\ db_calls' = [db_calls EXCEPT ![r] = Append(@, "find_one")]
    /\ Respond(r, HTTPException(500, "Internal Server Error"))
    /\ UNCHANGED <<pureVars, users, endpoint, user_id, user, locals>>

\* lines 95-102: fetch the updated document and return; updated_user.get on None
\* is an AttributeError, which the HTTP layer answers with a 500
Refetch(r) ==
    /\ pc[r] = "refetch"
    /\ db_calls' = [db_calls EXCEPT ![r] = Append(@, "find_one")]
    /\ LET updated_user == find_one(user[r].oid) IN
       IF updated_user = None
       THEN Respond(r, HTTPException(500, "Internal Server Error"))
       ELSE Respond(r, [status |-> 200,
                        message |-> "Analysis completed and updated",
                        email |-> get(updated_user, "email", None),
                        data |-> updated_user])
    /\ UNCHANGED <<pureVars, users, endpoint, user_id, user, locals>>

\* analyze_user_finances, lines 18-28
AnalysisFind(r) ==
    /\ pc[r] = "find" /\ endpoint[r] = "analysis"
    /\ LET found == find_one(ObjectId(user_id[r])) IN
       /\ user' = [user EXCEPT ![r] = found]
       /\ db_calls' = [db_calls EXCEPT ![r] = Append(@, "find_one")]
       /\ IF found = None
          THEN Respond(r, HTTPException(404, "User not found"))
          ELSE IF ~Truthy(get(found, "financial", Obj(<<>>)))
          THEN Respond(r, HTTPException(400, "No financial data found for the user"))
          ELSE /\ pc' = [pc EXCEPT ![r] = "analyze"]
               /\ UNCHANGED result
    /\ UNCHANGED <<pureVars, users, endpoint, user_id, locals>>

\* analyze_user_finances, lines 30-40
AnalysisRun(r) ==
    /\ pc[r] = "analyze"
    /\ \E resp \in ServiceResponses :
          LET res == analyze_spending(get(user[r], "financial", Obj(<<>>)), resp) IN
          /\ answers' = [answers EXCEPT ![r].spend_analysis = resp]
          /\ spend_analysis' = [spend_analysis EXCEPT ![r] =
                                   IF res.exc = "none" THEN res.val ELSE Unbound]
          /\ IF res.exc = "none"
             THEN Respond(r, [status |-> 200, user_id |-> user_id[r], analysis |-> res.val])
             ELSE Respond(r, HTTPException(500, "Error analyzing financial data: " \o res.msg))
    /\ UNCHANGED <<pureVars, users, endpoint, user_id, user, db_calls,
                   longterm, shortterm, good_habits, bad_habits, update_data>>

\* delete_user, lines 140-147
DeleteOne(r) ==
    /\ pc[r] = "find" /\ endpoint[r] = "delete"
    /\ LET oid == ObjectId(user_id[r])
           deleted_count == IF find_one(oid) = None THEN 0 ELSE 1
       IN  /\ users' = IF deleted_count = 1 THEN [users EXCEPT ![oid] = None] ELSE users
           /\ IF deleted_count = 0
              THEN Respond(r, HTTPException(404, "User not found"))
              ELSE Respond(r, [status |-> 200, message |-> "User deleted successfully"])
    /\ db_calls' = [db_calls EXCEPT ![r] = Append(@, "delete_one")]
    /\ UNCHANGED <<pureVars, endpoint, user_id, user, locals>>

ServerIdle ==
    /\ pc = [r \in Runs |-> "idle"]
    /\ endpoint = [r \in Runs |-> "none"]
    /\ user_id = [r \in Runs |-> <<>>]
    /\ user = [r \in Runs |-> None]
    /\ spend_analysis = [r \in Runs |-> Unbound]
    /\ longterm = [r \in Runs |-> Unbound]
    /\ shortterm = [r \in Runs |-> Unbound]
    /\ good_habits = [r \in Runs |-> Unbound]
    /\ bad_habits = [r \in Runs |-> Unbound]
    /\ update_data = [r \in Runs |-> Unbound]
    /\ answers = [r \in Runs |-> [f \in DerivedFields |-> NotAsked]]
    /\ result = [r \in Runs |-> NoResult]
    /\ db_calls = [r \in Runs |-> <<>>]

NotCalled == Raise("NotCalled", "")

PureIdle ==
    /\ response_text = <<>>
    /\ extracted = NotCalled
    /\ habit_stage = "none"
    /\ parsed_response = Obj(<<>>)
    /\ extracted_list = NotCalled

\* one request, served alone
Solo == "r1"

Init ==
    /\ PureIdle
    /\ ServerIdle
    /\ users \in {[oid \in ObjectIds |-> IF oid = IdA THEN a ELSE OtherDocument] :
                     a \in ProfilesA \cup {None}}

Serve(r) ==
    \/ Arrive(r)
    \/ Validate(r)
    \/ VerifyFind(r)
    \/ StageSpend(r)
    \/ StageLongterm(r)
    \/ StageShortterm(r)
    \/ StageGoodHabits(r)
    \/ StageBadHabits(r)
    \/ UpdateOne(r)
    \/ Refetch(r)
    \/ AnalysisFind(r)
    \/ AnalysisRun(r)
    \/ DeleteOne(r)

Next == Serve(Solo)

Spec == Init /\ [][Next]_vars

---------------------------------------------------------------------------
(* Specification of extract_json alone: every text up to MaxLen tokens *)

MaxLen == 5

Alphabet == {"{", "}", "k", "v", "p"}

Texts == UNION {[1..n -> Alphabet] : n \in 0..MaxLen}

habitVars == <<habit_stage, parsed_response, extracted_list>>

HabitsIdle ==
    /\ habit_stage = "none"
    /\ parsed_response = Obj(<<>>)
    /\ extracted_list = NotCalled

InitExtract ==
    /\ response_text \in Texts
    /\ extracted = NotCalled
    /\ HabitsIdle
    /\ ServerIdle
    /\ users = [oid \in ObjectIds |-> None]

CallExtractJson ==
    /\ extracted = NotCalled
    /\ extracted' = extract_json(response_text)
    /\ UNCHANGED <<response_text, habitVars, users, reqVars, locals>>

NextExtract == CallExtractJson

SpecExtract == InitExtract /\ [][NextExtract]_vars

---------------------------------------------------------------------------
(* Specification of the Result Normalizer alone: the parsed objects a habit  *)
(* stage can be handed, category by category                                 *)

MaxSub == 3            \* sub-keys per good-habits category

ItemCounts == 0..2     \* lengths of a category list

SubKeys == <<"investments", "selfDevelopment", "protectiveSpending",
             "skillEnhancement", "other">>

ItemList(c, s, n) == Lst([i \in 1..n |-> Item(c, s, i)])

\* what a key can hold: a list of 0.. items, or something that is no list
ListShapes == ItemCounts \cup {-1}

ShapeValue(c, s, shape) == IF shape = -1 THEN Str("v") ELSE ItemList(c, s, shape)

\* a good-habits category: absent, no object, or an object of up to MaxSub sub-keys
GoodCategory(c) ==
    {Absent, Lst(<<>>)} \cup
    UNION {{Obj([i \in 1..n |-> <<SubKeys[i], ShapeValue(c, SubKeys[i], f[i])>>]) :
                f \in [1..n -> ListShapes]} : n \in 0..MaxSub}

\* a good-habits category with at most one sub-key
SmallGoodCategory(c) ==
    {Obj(<<>>)} \cup {Obj(<< <<SubKeys[1], ShapeValue(c, SubKeys[1], sh)>> >>) : sh \in ListShapes}

\* the object with the given members, the absent ones left out
MkObj(pairs) == Obj(SelectSeq(pairs, LAMBDA kv : kv[2] # Absent))

GoodDocs ==
    {MkObj(<< <<GoodKeys[1], a>>, <<GoodKeys[2], b>> >>) :
        a \in GoodCategory(GoodKeys[1]), b \in GoodCategory(GoodKeys[2])}
    \cup
    {MkObj(<< <<GoodKeys[2], b>>, <<GoodKeys[1], a>> >>) :
        a \in SmallGoodCategory(GoodKeys[1]), b \in SmallGoodCategory(GoodKeys[2])}
    \cup
    {MkObj(<< <<"error", Str("v")>>, <<GoodKeys[1], a>> >>) :
        a \in SmallGoodCategory(GoodKeys[1])}

\* a bad-habits category: absent (-2), no list (-1), or a list of 0.. items
BadShapes == ListShapes \cup {-2}

BadValue(c, shape) == IF shape = -2 THEN Absent ELSE ShapeValue(c, c, shape)

BadDocs ==
    {MkObj([i \in 1..Len(BadKeys) |-> <<BadKeys[i], BadValue(BadKeys[i], f[i])>>]) :
        f \in [1..Len(BadKeys) -> BadShapes]}
    \cup
    {MkObj(<< <<"error", Str("v")>>, <<BadKeys[1], BadValue(BadKeys[1], sh)>> >>) :
        sh \in BadShapes}

InitHabits ==
    /\ habit_stage \in {"good", "bad"}
    /\ parsed_response \in (IF habit_stage = "good" THEN GoodDocs ELSE BadDocs)
    /\ extracted_list = NotCalled
    /\ response_text = <<>>
    /\ extracted = NotCalled
    /\ ServerIdle
    /\ users = [oid \in ObjectIds |-> None]

Normalize ==
    /\ habit_stage # "none"
    /\ extracted_list = NotCalled
    /\ extracted_list' = habits_of_parsed(habit_stage, parsed_response)
    /\ UNCHANGED <<habit_stage, parsed_response, response_text, extracted,
                   users, reqVars, locals>>

NextHabits == Normalize

SpecHabits == InitHabits /\ [][NextHabits]_vars

---------------------------------------------------------------------------
(* Specification of two requests on the same record, interleaved.  A motor  *)
(* call (find_one, update_one, delete_one) is awaited: another request's     *)
(* store operation can take effect between any two of a handler's own.       *)

\* what the service answers to each request's calls: the first request gets
\* content (populated or empty), the second gets failures or empty content
ConcAnswers(r) ==
    IF r = "r1"
    THEN {NotAsked, Completion(SpendText), Completion(GoodText), Completion(BadText),
          Completion(<<"{", "}">>)}
    ELSE {NotAsked, ApiError, Completion(<<"{", "}">>)}

\* the record both requests address, with and without earlier derived values
ConcProfiles ==
    {Document(IdA, Str("a@x"), Financial, Absent, Absent, Absent, Absent, Absent),
     Document(IdA, Str("a@x"), Financial, Data("a"), Data("b"), Data("c"),
              Lst(<<Item("p", "p", 1)>>), Lst(<<Item("q", "q", 1)>>))}

InitConc ==
    /\ PureIdle
    /\ ServerIdle
    /\ users \in {[oid \in ObjectIds |-> IF oid = IdA THEN a ELSE OtherDocument] :
                     a \in ConcProfiles}

\* the service's answer to the call request r has just made is one of ConcAnswers
Answered(r) == \A f \in DerivedFields : answers'[r][f] \in ConcAnswers(r)

\* a step of request r, both requests addressing the record IdA
ServeConc(r) ==
    \/ Arrive(r) /\ user_id'[r] = IdA
    \/ Validate(r)
    \/ VerifyFind(r)
    \/ StageSpend(r) /\ Answered(r)
    \/ StageLongterm(r) /\ Answered(r)
    \/ StageShortterm(r) /\ Answered(r)
    \/ StageGoodHabits(r) /\ Answered(r)
    \/ StageBadHabits(r) /\ Answered(r)
    \/ UpdateOne(r)
    \/ Refetch(r)
    \/ AnalysisFind(r)
    \/ AnalysisRun(r) /\ Answered(r)
    \/ DeleteOne(r)

NextConc == \E r \in Runs : ServeConc(r)

SpecConc == InitConc /\ [][NextConc]_vars

---------------------------------------------------------------------------
(* Claims about extract_json (SpecExtract) *)

Called == extracted # NotCalled

OpenAt(text)  == {i \in 1..Len(text) : text[i] = "{"}
CloseAt(text) == {i \in 1..Len(text) : text[i] = "}"}
SetMin(S) == CHOOSE x \in S : \A y \in S : x <= y
SetMax(S) == CHOOSE x \in S : \A y \in S : y <= x

\* the text holds a span that starts with "{" and ends with a later "}"
HasBraceSpan(text) == \E i \in OpenAt(text) : \E j \in CloseAt(text) : i < j

\* the span from the first "{" to the last "}"
BraceSpan(text) == SubSeq(text, SetMin(OpenAt(text)), SetMax(CloseAt(text)))

IsErrorRecord(res) == res.exc = "none" /\ res.val.t = "obj" /\ HasKey(res.val, "error")

\* the text is one well-formed JSON object
IsObjectText(s) == s # <<>> /\ s[1] = "{" /\ json_loads(s).exc = "none"

HoldsObject(s) == \E i \in 1..Len(s) : \E j \in i..Len(s) : IsObjectText(SubSeq(s, i, j))

\* C5: for every raw text with no span from a "{" to a later "}", extract_json
\* returns a record carrying an `error` field and raises nothing.
C5_NoSpanYieldsErrorRecord ==
    (Called /\ ~HasBraceSpan(response_text)) => IsErrorRecord(extracted)

\* C6: for every raw text whose span from the first "{" to the last "}" does not
\* parse as JSON, extract_json returns the error record {"error": "Invalid JSON
\* format from OpenAI"}: no partially parsed object, no exception.
C6_UnparsableSpanYieldsErrorRecord ==
    (/\ Called
     /\ HasBraceSpan(response_text)
     /\ json_loads(BraceSpan(response_text)).exc # "none")
    => (/\ IsErrorRecord(extracted)
        /\ extracted.val = ErrorRecord("Invalid JSON format from OpenAI"))

\* extract_json has acted on a text with an unparsable span that ends in a
\* well-formed prefix of an object
C6_Witness ==
    /\ Called
    /\ response_text = <<"p", "{", "k", "}", "p">>
    /\ HasBraceSpan(response_text)
    /\ json_loads(BraceSpan(response_text)).exc # "none"
    /\ IsErrorRecord(extracted)

\* C7: for every raw text made of leading prose, exactly one well-formed JSON
\* object and trailing prose, whatever the prose holds, extract_json returns
\* exactly what parsing the object alone gives.
C7_SingleObjectReturnedUnchanged ==
    Called =>
        \A i \in 1..Len(response_text) : \A j \in i..Len(response_text) :
            LET pre  == SubSeq(response_text, 1, i - 1)
                obj  == SubSeq(response_text, i, j)
                post == SubSeq(response_text, j + 1, Len(response_text))
            IN  (IsObjectText(obj) /\ ~HoldsObject(pre) /\ ~HoldsObject(post))
                => (extracted.exc = "none" /\ extracted.val = json_loads(obj).val)

---------------------------------------------------------------------------
(* Claims about the Result Normalizer (SpecHabits) *)

Normalized == habit_stage # "none" /\ extracted_list # NotCalled

\* the first element of every non-empty list among `vals`, in order
ListFirsts(vals) ==
    LET populated == SelectSeq(vals, LAMBDA v : v.t = "list" /\ v.e # <<>>)
    IN  [i \in 1..Len(populated) |-> populated[i].e[1]]

\* the values under the sub-keys of category k, in the order the object declares them
SubListsOf(parsed, k) ==
    IF HasKey(parsed, k) /\ GetKey(parsed, k).t = "obj"
    THEN [i \in 1..Len(GetKey(parsed, k).m) |-> GetKey(parsed, k).m[i][2]]
    ELSE <<>>

\* the values under the categories of `keys` that the object holds, in the order of `keys`
ListsOf(parsed, keys) ==
    LET present == SelectSeq(keys, LAMBDA k : HasKey(parsed, k))
    IN  [i \in 1..Len(present) |-> GetKey(parsed, present[i])]

\* the selection the Result Normalizer is specified to make
Selected(stage, parsed) ==
    IF stage = "good"
    THEN ListFirsts(SubListsOf(parsed, GoodKeys[1]) \o SubListsOf(parsed, GoodKeys[2]))
    ELSE ListFirsts(ListsOf(parsed, BadKeys))

\* no top-level `error` key, and every good-habits category present is an object
DeclaredShape(stage, parsed) ==
    /\ ~HasKey(parsed, "error")
    /\ stage = "good" =>
         \A i \in 1..Len(GoodKeys) :
             HasKey(parsed, GoodKeys[i]) => GetKey(parsed, GoodKeys[i]).t = "obj"

IsErrorList(res) ==
    /\ res.exc = "none" /\ res.val.t = "list" /\ Len(res.val.e) = 1
    /\ res.val.e[1].t = "obj" /\ HasKey(res.val.e[1], "error")

\* C8 (as claimed): for both habit stages and every parsed JSON object, the output
\* is the first 4 elements of the selected sequence.
C8_OutputIsFirstFourSelected ==
    Normalized =>
        /\ extracted_list.exc = "none"
        /\ extracted_list.val = Lst(Take(Selected(habit_stage, parsed_response), 4))

\* C8 (amended): for both habit stages and every parsed JSON object that has no
\* top-level `error` key and whose good-habits categories are objects, if at
\* least one element is selected the output is the first 4 elements of the
\* selected sequence, in encounter order; for every parsed object the output
\* has at most 4 elements; an object with an `error` key or with a good-habits
\* category that is no object yields one error record, and so does the
\* bad-habits stage when nothing is selected.
C8_SelectedNonEmptyOutputIsFirstFour ==
    Normalized =>
        /\ extracted_list.exc = "none"
        /\ extracted_list.val.t = "list"
        /\ Len(extracted_list.val.e) <= 4
        /\ (/\ DeclaredShape(habit_stage, parsed_response)
            /\ Selected(habit_stage, parsed_response) # <<>>)
           => extracted_list.val = Lst(Take(Selected(habit_stage, parsed_response), 4))
        /\ ~DeclaredShape(habit_stage, parsed_response) => IsErrorList(extracted_list)
        /\ (habit_stage = "bad" /\ Selected(habit_stage, parsed_response) = <<>>)
           => IsErrorList(extracted_list)

\* the good-habits stage has normalized an object with 6 populated sub-lists
C8_Witness ==
    /\ Normalized
    /\ habit_stage = "good"
    /\ DeclaredShape(habit_stage, parsed_response)
    /\ Len(Selected(habit_stage, parsed_response)) = 6
    /\ Len(extracted_list.val.e) = 4
    /\ extracted_list.val.e[4] = Item(GoodKeys[2], SubKeys[1], 1)

\* C9: when nothing is selected a habit stage returns exactly one error record,
\* and neither stage ever returns an empty sequence.
C9_NeverEmptySequence ==
    Normalized =>
        /\ extracted_list.exc = "none"
        /\ extracted_list.val # Lst(<<>>)
        /\ Selected(habit_stage, parsed_response) = <<>> => IsErrorList(extracted_list)

---------------------------------------------------------------------------
(* Claims about the endpoints (Spec) *)

\* the call failed at the transport level: the service raised, or gave no usable content
TransportFailure(resp) ==
    \/ resp.kind \in {"api_error", "no_choices"}
    \/ resp.kind = "text" /\ strip(resp.content) = <<>>

\* the content holds no JSON span, or one that does not parse
ExtractionFailure(resp) ==
    /\ resp.kind = "text"
    /\ strip(resp.content) # <<>>
    /\ \/ ~HasBraceSpan(resp.content)
       \/ json_loads(BraceSpan(resp.content)).exc # "none"

StageFailed(resp) == TransportFailure(resp) \/ ExtractionFailure(resp)

DefaultOf(f) == IF f \in {"good_habits", "bad_habits"} THEN Lst(<<>>) ELSE Obj(<<>>)

\* the value the request's snapshot holds for a derived field
Prior(r, f) == get(user[r], f, DefaultOf(f))

\* the value the request's stage left in its local
LocalOf(r, f) ==
    CASE f = "spend_analysis" -> spend_analysis[r]
      [] f = "longterm"       -> longterm[r]
      [] f = "shortterm"      -> shortterm[r]
      [] f = "good_habits"    -> good_habits[r]
      [] f = "bad_habits"     -> bad_habits[r]

\* the value the store holds now for a derived field of the request's record
Stored(r, f) == users[user[r].oid][f]

\* the request is a pipeline run that has written its update back
Written(r) == endpoint[r] = "verify" /\ pc[r] \in {"refetch", "done"} /\ update_data[r] # Unbound

\* C1: if all five stages of a run fail at the transport level, the update the
\* run writes leaves all five derived fields equal to their prior stored values.
C1_AllTransportFailuresKeepPrior ==
    \A r \in Runs :
        (Written(r) /\ \A f \in DerivedFields : TransportFailure(answers[r][f]))
        => \A f \in DerivedFields :
               update_data[r][f] = Prior(r, f) /\ Stored(r, f) = Prior(r, f)

\* C2: per derived field, a non-empty prior value survives a run whose stage for
\* the field failed or produced an empty value, and a field whose stage succeeded
\* holds the new value.
C2_FailedStageKeepsNonEmptyPrior ==
    \A r \in Runs : Written(r) =>
        \A f \in DerivedFields :
            /\ (/\ Truthy(Prior(r, f))
                /\ StageFailed(answers[r][f]) \/ ~Truthy(LocalOf(r, f)))
               => Stored(r, f) = Prior(r, f)
            /\ (~StageFailed(answers[r][f]) /\ Truthy(LocalOf(r, f)))
               => Stored(r, f) = LocalOf(r, f)

\* the trigger endpoint found a record with an email
Triggered(r) ==
    /\ endpoint[r] = "verify"
    /\ user[r] # None
    /\ Truthy(get(user[r], "email", Str("")))

\* C3: whatever the five stages' outcomes, a run of the trigger endpoint on an
\* existing record with an email asks all five stages, writes back once and
\* returns {message, email, data}; no stage failure reaches the HTTP layer.
C3_TriggerAlwaysReturnsMergedResult ==
    \A r \in Runs : Triggered(r) =>
        /\ pc[r] # "done" => result[r] = NoResult
        /\ pc[r] = "done" =>
             /\ result[r].status = 200
             /\ result[r].message = "Analysis completed and updated"
             /\ result[r].email = user[r].email
             /\ result[r].data = users[user[r].oid]
             /\ \A f \in DerivedFields :
                   /\ answers[r][f] # NotAsked
                   /\ result[r].data[f] = update_data[r][f]
             /\ db_calls[r] = <<"find_one", "update_one", "find_one">>

\* a run in which every stage met another outcome has returned
C3_Witness ==
    \E r \in Runs :
        /\ Triggered(r) /\ pc[r] = "done"
        /\ answers[r].spend_analysis = ApiError
        /\ answers[r].longterm = NoChoices
        /\ ExtractionFailure(answers[r].shortterm) /\ ~HasBraceSpan(answers[r].shortterm.content)
        /\ ExtractionFailure(answers[r].good_habits) /\ HasBraceSpan(answers[r].good_habits.content)
        /\ answers[r].bad_habits = Completion(BadText)
        /\ bad_habits[r] = Lst(<<Str("a"), Str("c")>>)
        /\ result[r].status = 200
        /\ result[r].data.bad_habits = bad_habits[r]

\* C4: on the read-only analysis endpoint, whenever the spending-rating stage
\* fails, the response is a 500-class failure and no {user_id, analysis} body.
C4_AnalysisFailureIs500 ==
    \A r \in Runs :
        (/\ endpoint[r] = "analysis" /\ pc[r] = "done"
         /\ answers[r].spend_analysis # NotAsked
         /\ StageFailed(answers[r].spend_analysis))
        => (result[r].status >= 500 /\ result[r].status < 600)

\* a well-formed 24-hex-character token
WellFormedId(id) == id \in [1..24 -> HexDigits]

\* C10: a request whose identifier is not a well-formed 24-hex-character token
\* is answered 400 before any persistence call is issued; a well-formed one
\* passes validation and reaches the persistence call.
C10_MalformedIdRejectedBeforePersistence ==
    \A r \in Runs :
        /\ pc[r] \in {"idle", "validate", "find"} => db_calls[r] = <<>>
        /\ pc[r] \notin {"idle", "validate"} =>
             IF WellFormedId(user_id[r])
             THEN pc[r] # "find" => db_calls[r] # <<>>
             ELSE /\ pc[r] = "done"
                  /\ result[r] = HTTPException(400, "Invalid ObjectID format")
                  /\ db_calls[r] = <<>>

\* a delete request with 24 characters, one of them no hex digit, was answered 400
C10_Witness ==
    \E r \in Runs :
        /\ endpoint[r] = "delete"
        /\ Len(user_id[r]) = 24 /\ ~WellFormedId(user_id[r])
        /\ pc[r] = "done" /\ result[r].status = 400
        /\ db_calls[r] = <<>>
        /\ users[IdA] # None

---------------------------------------------------------------------------
(* Claims about the write-back (Spec) *)

\* request r takes its write-back step
WriteStep(r) == pc[r] = "update" /\ pc'[r] = "refetch"

\* C11: the write-back of a pipeline run changes only the five derived fields of
\* the addressed record: its other fields and every other record are the same
\* before and after the step, the document is never replaced as a whole, and no
\* other step of the run changes the store.
C11_WriteBackChangesOnlyDerivedFields ==
    [][\A r \in Runs :
          /\ WriteStep(r) =>
                LET oid == user[r].oid IN
                /\ \A other \in ObjectIds \ {oid} : users'[other] = users[other]
                /\ users'[oid] # None
                /\ DOMAIN users'[oid] = DOMAIN users[oid]
                /\ \A f \in DOMAIN users[oid] \ DerivedFields :
                       users'[oid][f] = users[oid][f]
                /\ \A f \in DerivedFields : users'[oid][f] = update_data'[r][f]
          /\ (endpoint'[r] = "verify" /\ ~WriteStep(r)) => users' = users
      ]_vars

\* a run has written back derived values that differ from the stored ones, on a
\* record that holds an email, financial data and insights, next to another record
C11_Witness ==
    \E r \in Runs :
        /\ Written(r)
        /\ \A f \in DerivedFields : Stored(r, f) # Prior(r, f)
        /\ users[user[r].oid].email = Str("a@x")
        /\ users[user[r].oid].financial = Financial
        /\ users[user[r].oid].insights = Obj(<<>>)
        /\ users[IdB] = OtherDocument

\* the request is a pipeline run about to launch a goals stage; the payload of
\* both goals stages is the local spend_analysis (lines 52 and 59)
GoalsDue(r) == endpoint[r] = "verify" /\ pc[r] \in {"longterm", "shortterm"}

\* C13: the payload given to the longterm-goals and shortterm-goals stages is the
\* spending-rating stage's output when that stage succeeded in this run, the
\* prior stored spend_analysis when it failed, and never an error record.
C13_GoalsPayloadIsOutputOrPrior ==
    \A r \in Runs : GoalsDue(r) =>
        LET resp == answers[r].spend_analysis IN
        /\ ~StageFailed(resp) => spend_analysis[r] = analyze_spending(user[r], resp).val
        /\ StageFailed(resp) => spend_analysis[r] = Prior(r, "spend_analysis")
        /\ ~(spend_analysis[r].t = "obj" /\ HasKey(spend_analysis[r], "error"))

\* the number of update_one calls request r has issued
Writes(r) == Cardinality({i \in 1..Len(db_calls[r]) : db_calls[r][i] = "update_one"})

\* C14: a pipeline run issues exactly one write to the record, only after all
\* five stages have resolved (with a result or a fallback), and its goals stages
\* are launched only after the spending-rating stage has resolved.
C14_SingleWriteAfterAllStages ==
    \A r \in Runs : endpoint[r] = "verify" =>
        /\ Writes(r) <= 1
        /\ Writes(r) = 1 =>
              \A f \in DerivedFields : answers[r][f] # NotAsked /\ LocalOf(r, f) # Unbound
        /\ (Triggered(r) /\ pc[r] = "done") => Writes(r) = 1
        /\ (answers[r].longterm # NotAsked \/ answers[r].shortterm # NotAsked) =>
              (answers[r].spend_analysis # NotAsked /\ spend_analysis[r] # Unbound)

\* a run whose stages resolved with an error record, a fallback and results has
\* finished after its single write
C14_Witness ==
    \E r \in Runs :
        /\ Triggered(r) /\ pc[r] = "done"
        /\ answers[r].spend_analysis = ApiError
        /\ answers[r].longterm = Completion(<<"{", "}">>)
        /\ answers[r].shortterm = Completion(SpendText)
        /\ Writes(r) = 1
        /\ db_calls[r] = <<"find_one", "update_one", "find_one">>

\* {"error": ...} or a one-element list holding such a record
IsErrorValue(v) ==
    \/ v.t = "obj" /\ HasKey(v, "error")
    \/ v.t = "list" /\ Len(v.e) = 1 /\ v.e[1].t = "obj" /\ HasKey(v.e[1], "error")

\* C15: for each derived field the value placed in the update is this run's stage
\* value when it is truthy and the prior stored value otherwise; an explicit
\* error record counts as truthy and is the value persisted.
C15_MergeTakesTruthyStageValue ==
    \A r \in Runs : Written(r) =>
        \A f \in DerivedFields :
            /\ update_data[r][f] =
                  IF Truthy(LocalOf(r, f)) THEN LocalOf(r, f) ELSE Prior(r, f)
            /\ IsErrorValue(LocalOf(r, f)) =>
                  (update_data[r][f] = LocalOf(r, f) /\ Stored(r, f) = LocalOf(r, f))

\* a run has persisted an error record over a non-empty prior value in one field
\* and kept the prior value of another whose stage returned an empty object
C15_Witness ==
    \E r \in Runs :
        /\ Written(r)
        /\ Truthy(Prior(r, "spend_analysis"))
        /\ ~IsErrorValue(Prior(r, "spend_analysis"))
        /\ IsErrorValue(spend_analysis[r])
        /\ Stored(r, "spend_analysis") = spend_analysis[r]
        /\ longterm[r] = Obj(<<>>)
        /\ Truthy(Prior(r, "longterm"))
        /\ Stored(r, "longterm") = Prior(r, "longterm")
        /\ IsErrorValue(good_habits[r])
        /\ Stored(r, "good_habits") = good_habits[r]

---------------------------------------------------------------------------
(* Claims about interleaved requests (SpecConc) *)

\* C12: once the profile has been read, analyze_and_update_user returns a
\* {message, email, data} result and raises nothing, for any stage outcomes and
\* any interleaving with another pipeline run or a delete of the same record.
C12_RunReturnsOnceProfileRead ==
    \A r \in Runs :
        (Triggered(r) /\ pc[r] = "done") =>
            /\ result[r].status = 200
            /\ result[r].message = "Analysis completed and updated"

\* the derived fields of a stored document
Derived(doc) == [f \in DerivedFields |-> doc[f]]

\* both requests are pipeline runs that have written back and returned
BothFinished ==
    \A r \in Runs : Written(r) /\ pc[r] = "done" /\ result[r].status = 200

\* C16: when two pipeline runs on the same record interleave, every write-back
\* sets all five derived fields to the values of its own update whatever the
\* other run stored (a field the run fell back on takes its snapshot's value),
\* nothing but a write-back changes them, and so after both have finished the
\* five stored fields are those of one run's update, the one issued last.
C16_LastWriteWins ==
    /\ [](BothFinished =>
            \E r \in Runs : \A f \in DerivedFields : Stored(r, f) = update_data[r][f])
    /\ [][(\A r \in Runs :
              (WriteStep(r) /\ users[user[r].oid] # None) =>
                  \A f \in DerivedFields :
                      /\ users'[user[r].oid][f] = update_data'[r][f]
                      /\ ~Truthy(LocalOf(r, f)) => users'[user[r].oid][f] = Prior(r, f))
          /\ ((/\ users[IdA] # None /\ users'[IdA] # None
               /\ Derived(users'[IdA]) # Derived(users[IdA]))
              => \E q \in Runs : WriteStep(q))
         ]_vars

\* both runs have finished; the second wrote last: its fallback put its snapshot's
\* longterm back over the newer value the first run had stored
C16_Witness ==
    /\ BothFinished
    /\ longterm["r2"] = Obj(<<>>)
    /\ Truthy(Prior("r2", "longterm"))
    /\ Stored("r2", "longterm") = Prior("r2", "longterm")
    /\ update_data["r1"].longterm # Prior("r2", "longterm")
    /\ result["r1"].data.longterm = update_data["r1"].longterm
    /\ \A f \in DerivedFields : Stored("r2", f) = update_data["r2"][f]
    /\ Stored("r2", "spend_analysis") # update_data["r1"].spend_analysis

=============================================================================
